---- MODULE Spec2Model ----
(***************************************************************************)
(* Model of tealer's TEAL parser (tealer/teal/parse_teal.py) and of the    *)
(* command line front-end (tealer/__main__.py).                            *)
(*                                                                         *)
(* A source line is the record parse_line makes of it: the instruction     *)
(* class (kind), its label operand(s), the version and mode attributes of  *)
(* the class and the version of its field.  Instructions and basic blocks  *)
(* are Python objects; here an instruction is named by its position in     *)
(* the list `instructions` and a block by its position in creation order.  *)
(* 0 stands for None where an object is expected, "" where a name is.      *)
(***************************************************************************)
EXTENDS Integers, Sequences, FiniteSets, TLC

(***************************************************************************)
(* Bounds of the model.                                                    *)
(***************************************************************************)
\* longest program over CfgTokens
MaxLines == 3
\* longest program over SwitchTokens
MaxSwitchLines == 5
\* longest program over VersionTokens
MaxVersionLines == 3
\* longest program over LineTokens
MaxTextLines == 3
\* deepest call stack the detector's path walk follows
MaxCallDepth == 3
\* the longest integer literal
MaxLiteralLen == 4

(***************************************************************************)
(* Source lines.                                                           *)
(***************************************************************************)
Line(kind, label, labels, version, mode, field_version, program_version) ==
    [kind |-> kind, label |-> label, labels |-> labels, version |-> version,
     mode |-> mode, field_version |-> field_version,
     program_version |-> program_version]

Plain(kind, version) == Line(kind, "", <<>>, version, "any", 0, 0)
Jump(kind, label, version) == Line(kind, label, <<>>, version, "any", 0, 0)
Multi(kind, labels, version) == Line(kind, "", labels, version, "any", 0, 0)

\* lines that hold no instruction: `// ...`, an empty line, and a line
\* parse_line rejects with ParseError
CommentLine == Plain("Comment", 0)
BlankLine == Plain("Blank", 0)
MalformedLine == Plain("Malformed", 0)

PragmaLine(v) == Line("Pragma", "", <<>>, 1, "any", 0, v)
IntLine == Plain("Int", 1)
LabelLine(l) == Jump("Label", l, 1)
\* an instruction that is none of the classes parse_teal looks at, with the
\* given version, mode and field version (0: no field)
OtherLine(version, mode, field_version) ==
    Line("Other", "", <<>>, version, mode, field_version, 0)

LabelNames == {"L1", "L2", "L3", "subroutine_0"}

CfgTokens ==
    {IntLine, Plain("Retsub", 4), Plain("Return", 2),
     Multi("Switch", <<"L1", "L2">>, 8), Multi("Match", <<"L1", "L1">>, 8)}
    \cup {LabelLine(l) : l \in {"L1", "L2"}}
    \cup {Jump("B", l, 2) : l \in {"L1", "L2"}}
    \cup {Jump("BZ", l, 2) : l \in {"L1", "L2"}}
    \cup {Jump("Callsub", l, 4) : l \in {"L1", "L2"}}

SwitchTokens ==
    {IntLine, Multi("Switch", <<"L1", "L2", "L3">>, 8)}
    \cup {LabelLine(l) : l \in {"L1", "L2", "L3"}}

VersionTokens ==
    {PragmaLine(3), OtherLine(1, "any", 0), OtherLine(5, "any", 0),
     OtherLine(1, "stateful", 0), OtherLine(1, "stateless", 0),
     OtherLine(1, "any", 6), OtherLine(5, "any", 6)}

LineTokens ==
    {CommentLine, BlankLine, MalformedLine, IntLine, Plain("Err", 1),
     Jump("BNZ", "L1", 1), LabelLine("L1"), Jump("Callsub", "L1", 4),
     Line("Intcblock", "", <<>>, 1, "any", 0, 0),
     Line("Bytecblock", "", <<>>, 1, "any", 0, 0)}

\* the literals _parse_int is given: strings of up to MaxLiteralLen characters
Chars == {"0", "1", "2", "4", "7", "8", "A", "f", "x", "_"}
Literals == UNION {[1..k -> Chars] : k \in 0..MaxLiteralLen}

\* every text of 0..n lines over the given lines
Texts(tokens, n) == UNION {[1..k -> tokens] : k \in 0..n}

\* tests/detectors/subroutine_patterns.py: the string starts with a newline,
\* so its first line is empty
MULTIPLE_RETURN_POINTS ==
    <<BlankLine, PragmaLine(7), Jump("Callsub", "subroutine_0", 4),
      Jump("Callsub", "subroutine_0", 4), IntLine, Plain("Return", 2),
      LabelLine("subroutine_0"), Plain("Retsub", 4)>>

SourceTexts ==
    Texts(CfgTokens, MaxLines) \cup Texts(SwitchTokens, MaxSwitchLines)
    \cup Texts(VersionTokens, MaxVersionLines) \cup Texts(LineTokens, MaxTextLines)
    \cup {MULTIPLE_RETURN_POINTS}

VARIABLES
    lines,               \* source_code.splitlines()
    pc,                  \* where parse_teal is
    cursor,              \* lines _first_pass has taken from `lines`
    idx,                 \* _first_pass: idx
    prev,                \* _first_pass: prev
    instructions,        \* parse_teal: instructions
    labels,              \* parse_teal: labels
    subroutine_callsubs, \* parse_teal: subroutine_callsubs, in insertion order
    intcblock_ins,
    bytecblock_ins,
    bbs,                 \* the BasicBlock objects, in creation order
    all_bbs,             \* parse_teal: all_bbs, a list of blocks
    mode,
    version,
    verify_error,        \* what _verify_version returned
    stderr,              \* diagnostics printed to sys.stderr
    stdout,              \* what was printed to sys.stdout
    subroutines,         \* parse_teal: subroutines, in insertion order
    main_program,
    teal,                \* the Teal object parse_teal returns
    analyses,            \* the analyses run so far, in order
    caches,              \* the memoization caches of the stack AST builder
    caller,              \* who called parse_teal: "test" or "main"
    mpc,                 \* where main is
    args,                \* main: args, and what the command line names
    error,               \* main: error ("" is None)
    uncaught,            \* the exception that left main ("" when none did)
    results_detectors,   \* main: results_detectors
    output,              \* what handle_output printed or wrote
    walk,                \* the path the detector is on
    x,                   \* _parse_int: the argument x, a string of characters
    result               \* what the call of _parse_int came to

parser_vars ==
    <<lines, pc, cursor, idx, prev, instructions, labels, subroutine_callsubs,
      intcblock_ins, bytecblock_ins, bbs, all_bbs, mode, version, verify_error,
      stderr, stdout, subroutines, main_program, teal, analyses, caches>>

front_vars == <<caller, mpc, args, error, uncaught, results_detectors, output>>
int_vars == <<x, result>>

NoTeal == [made |-> FALSE]
NoSubroutine == [name |-> "", entry |-> 0, blocks |-> <<>>, caller_blocks |-> <<>>]

\* the locals of parse_teal before its first statement
ParserStart(text) ==
    /\ lines = text
    /\ cursor = 0
    /\ idx = 0
    /\ prev = 0
    /\ instructions = <<>>
    /\ labels = [l \in LabelNames |-> 0]
    /\ subroutine_callsubs = <<>>
    /\ intcblock_ins = <<>>
    /\ bytecblock_ins = <<>>
    /\ bbs = <<>>
    /\ all_bbs = <<>>
    /\ mode = ""
    /\ version = 0
    /\ verify_error = FALSE
    /\ stderr = <<>>
    /\ stdout = <<>>
    /\ subroutines = <<>>
    /\ main_program = NoSubroutine
    /\ teal = NoTeal
    /\ analyses = <<>>
    /\ caches = "empty"

(***************************************************************************)
(* Pass 1: _first_pass, one step per source line.                          *)
(***************************************************************************)
\* the Instruction object parse_line makes of a line
Parsed(line) ==
    [kind |-> line.kind, label |-> line.label, labels |-> line.labels,
     version |-> line.version, mode |-> line.mode,
     field_version |-> line.field_version,
     program_version |-> line.program_version,
     line |-> 0, next |-> <<>>, prev |-> <<>>, bb |-> 0, called_subroutine |-> ""]

\* AppendCallsub when the list of a label is replaced, not appended to
AppendCallsub_Overwrite(callsubs, label, i) ==
    IF \E k \in 1..Len(callsubs) : callsubs[k].name = label
    THEN [k \in 1..Len(callsubs) |->
            IF callsubs[k].name = label
            THEN [callsubs[k] EXCEPT !.callsubs = <<i>>]
            ELSE callsubs[k]]
    ELSE Append(callsubs, [name |-> label, callsubs |-> <<i>>])

\* subroutines[ins.label].append(ins) on a defaultdict(list)
AppendCallsub(callsubs, label, i) ==
    IF \E k \in 1..Len(callsubs) : callsubs[k].name = label
    THEN [k \in 1..Len(callsubs) |->
            IF callsubs[k].name = label
            THEN [callsubs[k] EXCEPT !.callsubs = Append(@, i)]
            ELSE callsubs[k]]
    ELSE Append(callsubs, [name |-> label, callsubs |-> <<i>>])

\* the line number _first_pass gives its counter after a line without error
LineCounter(n) == n + 1

\* lines 253-255 when a callsub counts as a jump as well
NextPrev_CallsubStops(ins, i) ==
    IF ins.kind \in {"B", "Err", "Return", "Retsub", "Callsub"} THEN 0 ELSE i

\* the cursor after an instruction: None after B, Err, Return and Retsub
NextPrev(ins, i) == IF ins.kind \in {"B", "Err", "Return", "Retsub"} THEN 0 ELSE i

\* the body of the loop for a line that holds an instruction
FirstPassInstruction(line) ==
    LET i == Len(instructions) + 1
        ins == [Parsed(line) EXCEPT !.line = LineCounter(idx),
                                    !.prev = IF prev # 0 THEN <<prev>> ELSE <<>>]
        linked == IF prev # 0
                  THEN [instructions EXCEPT ![prev].next = Append(@, i)]
                  ELSE instructions
    IN  /\ idx' = LineCounter(idx)
        /\ intcblock_ins' = IF ins.kind = "Intcblock"
                            THEN Append(intcblock_ins, i) ELSE intcblock_ins
        /\ bytecblock_ins' = IF ins.kind = "Bytecblock"
                             THEN Append(bytecblock_ins, i) ELSE bytecblock_ins
        /\ labels' = IF ins.kind = "Label"
                     THEN [labels EXCEPT ![ins.label] = i] ELSE labels
        /\ prev' = NextPrev(ins, i)
        /\ subroutine_callsubs' = IF ins.kind = "Callsub"
                                  THEN AppendCallsub(subroutine_callsubs, ins.label, i)
                                  ELSE subroutine_callsubs
        /\ instructions' = Append(linked, ins)
        /\ UNCHANGED <<pc, stdout>>

\* FirstPassNoInstruction when `continue` comes before the counter moves
FirstPassNoInstruction_Uncounted ==
    /\ UNCHANGED <<idx, pc, stdout, intcblock_ins, bytecblock_ins, labels, prev,
                   subroutine_callsubs, instructions>>

\* a comment or an empty line: no instruction, the counter moves on
FirstPassNoInstruction ==
    /\ idx' = LineCounter(idx)
    /\ UNCHANGED <<pc, stdout, intcblock_ins, bytecblock_ins, labels, prev,
                   subroutine_callsubs, instructions>>

\* except ParseError: print and sys.exit(1)
FirstPassParseError ==
    /\ stdout' = Append(stdout, [text |-> "Parse error at line", line |-> idx])
    /\ pc' = "exit"
    /\ UNCHANGED <<idx, intcblock_ins, bytecblock_ins, labels, prev,
                   subroutine_callsubs, instructions>>

_first_pass ==
    /\ pc = "first_pass"
    /\ UNCHANGED <<front_vars, walk, int_vars>>
    /\ cursor < Len(lines)
    /\ cursor' = cursor + 1
    /\ LET line == lines[cursor + 1]
       IN  CASE line.kind = "Malformed" -> FirstPassParseError
             [] line.kind \in {"Comment", "Blank"} -> FirstPassNoInstruction
             [] OTHER -> FirstPassInstruction(line)
    /\ UNCHANGED <<lines, bbs, all_bbs, mode, version, verify_error, stderr,
                   subroutines, main_program, teal, analyses, caches>>

\* the loop is over: return intcblock_ins, bytecblock_ins
_first_pass_return ==
    /\ pc = "first_pass"
    /\ UNCHANGED <<front_vars, walk, int_vars>>
    /\ cursor = Len(lines)
    /\ pc' = "second_pass"
    /\ UNCHANGED <<lines, cursor, idx, prev, instructions, labels,
                   subroutine_callsubs, intcblock_ins, bytecblock_ins, bbs,
                   all_bbs, mode, version, verify_error, stderr, stdout,
                   subroutines, main_program, teal, analyses, caches>>

(***************************************************************************)
(* Pass 2: _second_pass.                                                   *)
(***************************************************************************)
\* the labels an instruction jumps to, in the order pass 2 links them
JumpLabels(ins) ==
    IF ins.kind \in {"B", "BZ", "BNZ"} THEN <<ins.label>>
    ELSE IF ins.kind \in {"Switch", "Match"} THEN ins.labels
    ELSE <<>>

\* ins.add_next(labels[l]) without labels[l].add_prev(ins)
AddJumpEdge_OneWay(instrs, i, l) ==
    [instrs EXCEPT ![i].next = Append(@, labels[l])]

\* ins.add_next(labels[l]); labels[l].add_prev(ins)
AddJumpEdge(instrs, i, l) ==
    [instrs EXCEPT ![i].next = Append(@, labels[l]),
                   ![labels[l]].prev = Append(@, i)]

RECURSIVE AddJumpEdges(_, _, _)
AddJumpEdges(instrs, i, ls) ==
    IF ls = <<>> THEN instrs
    ELSE AddJumpEdges(AddJumpEdge(instrs, i, Head(ls)), i, Tail(ls))

RECURSIVE SecondPassFrom(_, _)
SecondPassFrom(instrs, i) ==
    IF i > Len(instrs) THEN instrs
    ELSE SecondPassFrom(AddJumpEdges(instrs, i, JumpLabels(instrs[i])), i + 1)

\* labels[ins.label] raises KeyError for a label no line defines
UndefinedJump ==
    \E i \in 1..Len(instructions) :
        \E k \in 1..Len(JumpLabels(instructions[i])) :
            labels[JumpLabels(instructions[i])[k]] = 0

_second_pass ==
    /\ pc = "second_pass"
    /\ UNCHANGED <<front_vars, walk, int_vars>>
    /\ IF UndefinedJump
       THEN /\ pc' = "KeyError"
            /\ UNCHANGED instructions
       ELSE /\ pc' = "create_bb"
            /\ instructions' = SecondPassFrom(instructions, 1)
    /\ UNCHANGED <<lines, cursor, idx, prev, labels, subroutine_callsubs,
                   intcblock_ins, bytecblock_ins, bbs, all_bbs, mode, version,
                   verify_error, stderr, stdout, subroutines, main_program,
                   teal, analyses, caches>>

(***************************************************************************)
(* Pass 3: create_bb.                                                      *)
(***************************************************************************)
Range(s) == {s[k] : k \in 1..Len(s)}

EmptyBlock == [instructions |-> <<>>, next |-> <<>>, prev |-> <<>>,
               idx |-> -1, subroutine |-> ""]

\* NewBlock with next_bb.add_prev(bb) and without bb.add_next(next_bb)
NewBlock_PrevOnly(st, edge) ==
    LET n == Len(st.bbs) + 1
        made == Append(st.bbs, EmptyBlock)
    IN  [st EXCEPT !.bb = n,
                   !.bbs = IF edge
                           THEN [made EXCEPT ![n].prev = Append(@, st.bb)]
                           ELSE made]

\* next_bb = BasicBlock(); all_bbs.append(next_bb); bb = next_bb, and between
\* the two, when `edge`, bb.add_next(next_bb); next_bb.add_prev(bb)
NewBlock(st, edge) ==
    LET n == Len(st.bbs) + 1
        made == Append(st.bbs, EmptyBlock)
    IN  [st EXCEPT !.bb = n,
                   !.bbs = IF edge
                           THEN [made EXCEPT ![st.bb].next = Append(@, n),
                                             ![n].prev = Append(@, st.bb)]
                           ELSE made]

\* LabelOpensBlock when a Label does not start a block
LabelOpensBlock_Forgotten(ins, block) == FALSE

\* line 133: a Label starts a block unless the block is still empty
LabelOpensBlock(ins, block) == ins.kind = "Label" /\ Len(block.instructions) # 0

\* ClosesWithDefaultEdge when only a Callsub ends the block
ClosesWithDefaultEdge_CallsubOnly(ins) == ins.kind = "Callsub"

\* ClosesWithDefaultEdge when a Callsub does not end the block
ClosesWithDefaultEdge_BranchOnly(ins) == Len(ins.next) > 1

\* line 146: the instruction ends its block, the next one is a default successor
ClosesWithDefaultEdge(ins) == Len(ins.next) > 1 \/ ins.kind = "Callsub"

\* line 158 without the test for B
ClosesWithoutEdge_ExitsOnly(ins) == Len(ins.next) = 0

\* line 158: the instruction ends its block, there is no default successor
ClosesWithoutEdge(ins) == Len(ins.next) = 0 \/ ins.kind = "B"

\* the body of the loop of create_bb for instructions[i]
CreateBBStep(st, i) ==
    LET ins == st.instrs[i]
        last == (i = Len(st.instrs))
        s1 == IF LabelOpensBlock(ins, st.bbs[st.bb]) THEN NewBlock(st, TRUE) ELSE st
        s2 == [s1 EXCEPT !.bbs[s1.bb].instructions = Append(@, i),
                         !.instrs[i].bb = s1.bb]
        s3 == IF ClosesWithDefaultEdge(ins) THEN NewBlock(s2, TRUE) ELSE s2
    IN  IF ClosesWithDefaultEdge(ins) /\ last THEN s2
        ELSE IF ClosesWithoutEdge(ins)
             THEN IF last THEN s3 ELSE NewBlock(s3, FALSE)
             ELSE s3

RECURSIVE CreateBBFrom(_, _)
CreateBBFrom(st, i) ==
    IF i > Len(st.instrs) THEN st ELSE CreateBBFrom(CreateBBStep(st, i), i + 1)

create_bb ==
    /\ pc = "create_bb"
    /\ UNCHANGED <<front_vars, walk, int_vars>>
    /\ LET st == CreateBBFrom([instrs |-> instructions, bbs |-> <<EmptyBlock>>,
                               bb |-> 1], 1)
       IN  /\ instructions' = st.instrs
           /\ bbs' = st.bbs
           /\ all_bbs' = [b \in 1..Len(st.bbs) |-> b]
    /\ pc' = "fourth_pass"
    /\ UNCHANGED <<lines, cursor, idx, prev, labels, subroutine_callsubs,
                   intcblock_ins, bytecblock_ins, mode, version, verify_error,
                   stderr, stdout, subroutines, main_program, teal, analyses,
                   caches>>

(***************************************************************************)
(* Pass 4: _fourth_pass.                                                   *)
(***************************************************************************)
\* EdgeMissing with the test inverted
EdgeMissing_Inverted(blocks, b, nb) == nb \in Range(blocks[b].next)

\* line 314: the edge is added unless bb.next has the block already
EdgeMissing(blocks, b, nb) == nb \notin Range(blocks[b].next)

\* the body of the inner loop for one successor of the exit instruction
FourthPassEdge(r, b, next_ins) ==
    LET nb == instructions[next_ins].bb
    IN  IF r.error # "" \/ ~EdgeMissing(r.bbs, b, nb) THEN r
        ELSE IF b \in Range(r.bbs[nb].prev)
             THEN [r EXCEPT !.error = "AssertionError"]
             ELSE [r EXCEPT !.bbs = [@ EXCEPT ![b].next = Append(@, nb),
                                              ![nb].prev = Append(@, b)]]

RECURSIVE FourthPassEdges(_, _, _)
FourthPassEdges(r, b, nexts) ==
    IF nexts = <<>> THEN r
    ELSE FourthPassEdges(FourthPassEdge(r, b, Head(nexts)), b, Tail(nexts))

\* bb.exit_instr is bb.instructions[-1]: IndexError on a block without
\* instructions
RECURSIVE FourthPassFrom(_, _)
FourthPassFrom(r, k) ==
    IF k > Len(all_bbs) \/ r.error # "" THEN r
    ELSE LET b == all_bbs[k]
             ins == r.bbs[b].instructions
         IN  IF ins = <<>> THEN [r EXCEPT !.error = "IndexError"]
             ELSE FourthPassFrom(
                    FourthPassEdges(r, b, instructions[ins[Len(ins)]].next), k + 1)

_fourth_pass ==
    /\ pc = "fourth_pass"
    /\ UNCHANGED <<front_vars, walk, int_vars>>
    /\ LET r == FourthPassFrom([bbs |-> bbs, error |-> ""], 1)
       IN  /\ bbs' = r.bbs
           /\ pc' = IF r.error # "" THEN r.error ELSE "add_basic_blocks_idx"
    /\ UNCHANGED <<lines, cursor, idx, prev, instructions, labels,
                   subroutine_callsubs, intcblock_ins, bytecblock_ins, all_bbs,
                   mode, version, verify_error, stderr, stdout, subroutines,
                   main_program, teal, analyses, caches>>

(***************************************************************************)
(* _add_basic_blocks_idx, _detect_contract_type, the program version and   *)
(* _verify_version.                                                        *)
(***************************************************************************)
\* key=lambda x: x.entry_instr.line
EntryLine(b) == instructions[bbs[b].instructions[1]].line

\* sorted() is stable: a block goes after the blocks whose key is not larger
InsertSorted(sorted, b) ==
    LET n == Cardinality({k \in 1..Len(sorted) : EntryLine(sorted[k]) <= EntryLine(b)})
    IN  SubSeq(sorted, 1, n) \o <<b>> \o SubSeq(sorted, n + 1, Len(sorted))

RECURSIVE SortedBlocks(_, _)
SortedBlocks(sorted, rest) ==
    IF rest = <<>> THEN sorted
    ELSE SortedBlocks(InsertSorted(sorted, Head(rest)), Tail(rest))

\* enumerate(bbs, 1) in place of enumerate(bbs)
BlockIdx_FromOne(sorted, b) == CHOOSE k \in 1..Len(sorted) : sorted[k] = b

\* for i, bb in enumerate(bbs): bb.idx = i
BlockIdx(sorted, b) == (CHOOSE k \in 1..Len(sorted) : sorted[k] = b) - 1

_add_basic_blocks_idx ==
    /\ pc = "add_basic_blocks_idx"
    /\ UNCHANGED <<front_vars, walk, int_vars>>
    /\ LET sorted == SortedBlocks(<<>>, all_bbs)
       IN  /\ all_bbs' = sorted
           /\ bbs' = [b \in 1..Len(bbs) |-> [bbs[b] EXCEPT !.idx = BlockIdx(sorted, b)]]
    /\ pc' = "detect_contract_type"
    /\ UNCHANGED <<lines, cursor, idx, prev, instructions, labels,
                   subroutine_callsubs, intcblock_ins, bytecblock_ins, mode,
                   version, verify_error, stderr, stdout, subroutines,
                   main_program, teal, analyses, caches>>

\* the loop of _detect_contract_type from instruction i on
RECURSIVE DetectFrom(_, _)
DetectFrom(instrs, i) ==
    IF i > Len(instrs) THEN "any"
    ELSE IF instrs[i].mode # "any" THEN instrs[i].mode
    ELSE DetectFrom(instrs, i + 1)

\* _detect_contract_type when a stateful-only instruction anywhere decides
_detect_contract_type_StatefulWins(instrs) ==
    IF \E i \in 1..Len(instrs) : instrs[i].mode = "stateful" THEN "stateful"
    ELSE DetectFrom(instrs, 1)

_detect_contract_type(instrs) == DetectFrom(instrs, 1)

\* ProgramVersion when the Pragma is not looked at
ProgramVersion_Default(instrs) == 1

\* lines 520-522
ProgramVersion(instrs) ==
    IF instrs[1].kind = "Pragma" THEN instrs[1].program_version ELSE 1

\* the loop body when the field is looked at whatever line 387 found
VersionDiagnostics_FieldAlways(ins, program_version) ==
    (IF program_version < ins.version
     THEN <<[kind |-> "instruction", line |-> ins.line]>> ELSE <<>>)
    \o (IF ins.field_version # 0 /\ program_version < ins.field_version
        THEN <<[kind |-> "field", line |-> ins.line]>> ELSE <<>>)

\* the diagnostics of the loop of _verify_version for one instruction
VersionDiagnostics(ins, program_version) ==
    IF program_version < ins.version
    THEN <<[kind |-> "instruction", line |-> ins.line]>>
    ELSE IF ins.field_version # 0 /\ program_version < ins.field_version
         THEN <<[kind |-> "field", line |-> ins.line]>>
         ELSE <<>>

RECURSIVE VersionDiagnosticsFrom(_, _, _)
VersionDiagnosticsFrom(instrs, i, program_version) ==
    IF i > Len(instrs) THEN <<>>
    ELSE VersionDiagnostics(instrs[i], program_version)
         \o VersionDiagnosticsFrom(instrs, i + 1, program_version)

\* stateful_ins and stateless_ins are both non-empty
ModeConflict(instrs) ==
    /\ \E i \in 1..Len(instrs) : instrs[i].mode = "stateful"
    /\ \E i \in 1..Len(instrs) : instrs[i].mode = "stateless"

\* what _verify_version prints and what it returns
VerifyVersion(instrs, program_version) ==
    LET found == VersionDiagnosticsFrom(instrs, 1, program_version)
        printed == IF ModeConflict(instrs)
                   THEN Append(found, [kind |-> "mode", line |-> 0])
                   ELSE found
    IN  [printed |-> printed, error |-> printed # <<>>]

detect_and_verify ==
    /\ pc = "detect_contract_type"
    /\ UNCHANGED <<front_vars, walk, int_vars>>
    /\ mode' = _detect_contract_type(instructions)
    /\ version' = ProgramVersion(instructions)
    /\ LET r == VerifyVersion(instructions, ProgramVersion(instructions))
       IN  /\ stderr' = stderr \o r.printed
           /\ verify_error' = r.error
    /\ pc' = "subroutines"
    /\ UNCHANGED <<lines, cursor, idx, prev, instructions, labels,
                   subroutine_callsubs, intcblock_ins, bytecblock_ins, bbs,
                   all_bbs, stdout, subroutines, main_program, teal, analyses,
                   caches>>

(***************************************************************************)
(* Subroutines: _identify_subroutine_blocks and parse_teal lines 526-559.  *)
(***************************************************************************)
\* line 357: a successor is pushed unless it was visited or is on the stack
Unseen(nb, stack, found) == nb \notin Range(found) /\ nb \notin Range(stack)

RECURSIVE PushSuccessors(_, _, _)
PushSuccessors(stack, nexts, found) ==
    IF nexts = <<>> THEN stack
    ELSE PushSuccessors(IF Unseen(Head(nexts), stack, found)
                        THEN Append(stack, Head(nexts)) ELSE stack,
                        Tail(nexts), found)

RECURSIVE SubroutineWalk(_, _, _)
SubroutineWalk(blocks, stack, found) ==
    IF stack = <<>> THEN found
    ELSE LET bb == stack[Len(stack)]
             found2 == Append(found, bb)
         IN  SubroutineWalk(blocks,
                            PushSuccessors(SubSeq(stack, 1, Len(stack) - 1),
                                           blocks[bb].next, found2),
                            found2)

_identify_subroutine_blocks(blocks, entry_block) ==
    SubroutineWalk(blocks, <<entry_block>>, <<>>)

\* callsub_blocks = [ins.bb for ins in subroutine_callsubs[subroutine_name]]
CallsubBlocks(instrs, callsubs) ==
    [k \in 1..Len(callsubs) |-> instrs[callsubs[k]].bb]

\* the Subroutine object made for one entry of subroutine_callsubs
SubroutineObject(entry) ==
    LET entry_block == instructions[labels[entry.name]].bb
    IN  [name |-> entry.name, entry |-> entry_block,
         blocks |-> _identify_subroutine_blocks(bbs, entry_block),
         caller_blocks |-> CallsubBlocks(instructions, entry.callsubs)]

\* the body of the loop over subroutine_callsubs for one entry
SubroutineStep(st, entry) ==
    LET obj == SubroutineObject(entry)
    IN  [instrs |-> [i \in 1..Len(st.instrs) |->
                        IF i \in Range(entry.callsubs)
                        THEN [st.instrs[i] EXCEPT !.called_subroutine = obj.name]
                        ELSE st.instrs[i]],
         bbs |-> [b \in 1..Len(st.bbs) |->
                        IF b \in Range(obj.blocks)
                        THEN [st.bbs[b] EXCEPT !.subroutine = obj.name]
                        ELSE st.bbs[b]],
         subroutines |-> Append(st.subroutines, obj)]

RECURSIVE SubroutinesFrom(_, _)
SubroutinesFrom(st, k) ==
    IF k > Len(subroutine_callsubs) THEN st
    ELSE SubroutinesFrom(SubroutineStep(st, subroutine_callsubs[k]), k + 1)

\* labels[subroutine_name] raises KeyError when no line defines the label
UndefinedSubroutine ==
    \E k \in 1..Len(subroutine_callsubs) : labels[subroutine_callsubs[k].name] = 0

identify_subroutines ==
    /\ pc = "subroutines"
    /\ UNCHANGED <<front_vars, walk, int_vars>>
    /\ IF UndefinedSubroutine
       THEN /\ pc' = "KeyError"
            /\ UNCHANGED <<instructions, bbs, subroutines>>
       ELSE LET st == SubroutinesFrom([instrs |-> instructions, bbs |-> bbs,
                                       subroutines |-> <<>>], 1)
            IN  /\ pc' = "main_program"
                /\ instructions' = st.instrs
                /\ bbs' = st.bbs
                /\ subroutines' = st.subroutines
    /\ UNCHANGED <<lines, cursor, idx, prev, labels, subroutine_callsubs,
                   intcblock_ins, bytecblock_ins, all_bbs, mode, version,
                   verify_error, stderr, stdout, main_program, teal, analyses,
                   caches>>

\* lines 550-551 without the loop of lines 557-559
OwnedByMain_ReachableOnly(block, b, main_blocks) == b \in Range(main_blocks)

\* lines 550-551 and 557-559: the blocks whose subroutine becomes __main__
OwnedByMain(block, b, main_blocks) ==
    b \in Range(main_blocks) \/ block.subroutine = ""

identify_main ==
    /\ pc = "main_program"
    /\ UNCHANGED <<front_vars, walk, int_vars>>
    /\ LET main_blocks == _identify_subroutine_blocks(bbs, all_bbs[1])
       IN  /\ main_program' = [name |-> "__main__", entry |-> all_bbs[1],
                               blocks |-> main_blocks, caller_blocks |-> <<>>]
           /\ bbs' = [b \in 1..Len(bbs) |->
                        IF OwnedByMain(bbs[b], b, main_blocks)
                        THEN [bbs[b] EXCEPT !.subroutine = "__main__"]
                        ELSE bbs[b]]
    /\ pc' = "teal"
    /\ UNCHANGED <<lines, cursor, idx, prev, instructions, labels,
                   subroutine_callsubs, intcblock_ins, bytecblock_ins, all_bbs,
                   mode, version, verify_error, stderr, stdout, subroutines,
                   teal, analyses, caches>>

(***************************************************************************)
(* The Teal object, the constant pools and the dataflow analyses.          *)
(***************************************************************************)
\* line 561; the pools are None until set
construct_teal ==
    /\ pc = "teal"
    /\ UNCHANGED <<front_vars, walk, int_vars>>
    /\ teal' = [made |-> TRUE, version |-> version, mode |-> mode,
                entry |-> main_program.entry,
                int_constants |-> 0, byte_constants |-> 0]
    /\ pc' = "fill_intc_bytec_info"
    /\ UNCHANGED <<lines, cursor, idx, prev, instructions, labels,
                   subroutine_callsubs, intcblock_ins, bytecblock_ins, bbs,
                   all_bbs, mode, version, verify_error, stderr, stdout,
                   subroutines, main_program, analyses, caches>>

\* the entry-block test of lines 471 and 474 left out
ResolvedPool_AnyBlock(block_ins, entry_block) ==
    IF Len(block_ins) = 1 THEN block_ins[1] ELSE 0

\* lines 471 and 474: the pool of the only block instruction, when that
\* instruction is in the entry block (0: the pool stays unset)
ResolvedPool(block_ins, entry_block) ==
    IF Len(block_ins) = 1 /\ instructions[block_ins[1]].bb = entry_block
    THEN block_ins[1] ELSE 0

_fill_intc_bytec_info ==
    /\ pc = "fill_intc_bytec_info"
    /\ UNCHANGED <<front_vars, walk, int_vars>>
    /\ teal' = [teal EXCEPT
                  !.int_constants = ResolvedPool(intcblock_ins, main_program.entry),
                  !.byte_constants = ResolvedPool(bytecblock_ins, main_program.entry)]
    /\ pc' = "analysis"
    /\ UNCHANGED <<lines, cursor, idx, prev, instructions, labels,
                   subroutine_callsubs, intcblock_ins, bytecblock_ins, bbs,
                   all_bbs, mode, version, verify_error, stderr, stdout,
                   subroutines, main_program, analyses, caches>>

\* the list of lines 439-445 without `c != group_indices_cls`
OtherAnalyses_Unfiltered == <<"AddrFields", "GroupIndices", "TxnType">>

\* the classes of all_constraints other than GroupIndices, in dir() order
OtherAnalyses == <<"AddrFields", "TxnType">>

\* lines 448-451: GroupIndices first, then one class after the other
run_analysis ==
    /\ pc = "analysis"
    /\ UNCHANGED <<front_vars, walk, int_vars>>
    /\ Len(analyses) < 1 + Len(OtherAnalyses)
    /\ analyses' = Append(analyses, IF analyses = <<>> THEN "GroupIndices"
                                    ELSE OtherAnalyses[Len(analyses)])
    /\ caches' = "filled"
    /\ UNCHANGED <<lines, pc, cursor, idx, prev, instructions, labels,
                   subroutine_callsubs, intcblock_ins, bytecblock_ins, bbs,
                   all_bbs, mode, version, verify_error, stderr, stdout,
                   subroutines, main_program, teal>>

\* lines 453-454, and parse_teal returns teal
cache_clear ==
    /\ pc = "analysis"
    /\ UNCHANGED <<front_vars, walk, int_vars>>
    /\ Len(analyses) = 1 + Len(OtherAnalyses)
    /\ caches' = "cleared"
    /\ pc' = "done"
    /\ UNCHANGED <<lines, cursor, idx, prev, instructions, labels,
                   subroutine_callsubs, intcblock_ins, bytecblock_ins, bbs,
                   all_bbs, mode, version, verify_error, stderr, stdout,
                   subroutines, main_program, teal, analyses>>

(***************************************************************************)
(* instructions/parse_transaction_field.py: _parse_int.                    *)
(***************************************************************************)
\* what a call came to: nothing yet, a value returned, an exception raised
NotCalled == [status |-> "not called", value |-> 0]
Value(n) == [status |-> "returned", value |-> n]
ValueError == [status |-> "ValueError", value |-> 0]

\* x.startswith(p)
startswith(s, p) == Len(s) >= Len(p) /\ SubSeq(s, 1, Len(p)) = p

\* the value Python's int() gives a character as a digit: 0-9, then the
\* letters of either case from 10 on; 99 for a character that is no digit
DigitValue(c) ==
    CASE c = "0" -> 0 [] c = "1" -> 1 [] c = "2" -> 2 [] c = "4" -> 4
      [] c = "7" -> 7 [] c = "8" -> 8 [] c = "A" -> 10 [] c = "f" -> 15
      [] c = "x" -> 33 [] OTHER -> 99

\* the digits read so far make `acc`; the value with the digits of s read on
RECURSIVE Accumulate(_, _, _)
Accumulate(acc, s, base) ==
    IF s = <<>> THEN acc
    ELSE Accumulate(acc * base + DigitValue(Head(s)), Tail(s), base)

\* Python's int(s, base) for base 8, 10 or 16: the prefix of the base (0x
\* for 16, 0o for 8) may come first, single underscores may stand between
\* digits and after the prefix, every other character has to be a digit of
\* the base and there has to be one; ValueError otherwise
int(s, base) ==
    LET prefixed == /\ Len(s) >= 2
                    /\ s[1] = "0"
                    /\ \/ base = 16 /\ s[2] \in {"x", "X"}
                       \/ base = 8 /\ s[2] \in {"o", "O"}
        body == IF prefixed THEN SubSeq(s, 3, Len(s)) ELSE s
        digits == SelectSeq(body, LAMBDA c : c # "_")
        placed == \A k \in 1..Len(body) :
                      body[k] = "_" =>
                          /\ k < Len(body)
                          /\ body[k + 1] # "_"
                          /\ k > 1 \/ prefixed
    IN  IF /\ digits # <<>>
           /\ placed
           /\ \A k \in 1..Len(digits) : DigitValue(digits[k]) < base
        THEN Value(Accumulate(0, digits, base))
        ELSE ValueError

\* _parse_int without the test for the prefix 0
_parse_int_NoOctal(s) ==
    IF startswith(s, <<"0", "x">>) THEN int(SubSeq(s, 3, Len(s)), 16)
    ELSE int(s, 10)

\* lines 100-104
_parse_int(s) ==
    IF startswith(s, <<"0", "x">>) THEN int(SubSeq(s, 3, Len(s)), 16)
    ELSE IF startswith(s, <<"0">>) THEN int(s, 8)
    ELSE int(s, 10)

\* _parse_int(x) returns or raises
call_parse_int ==
    /\ result = NotCalled
    /\ result' = _parse_int(x)
    /\ UNCHANGED <<parser_vars, front_vars, walk, x>>

(***************************************************************************)
(* The detector's walk over the parsed contract, as the test of            *)
(* tests/detectors/subroutine_patterns.py expects it of CanUpdate: a call  *)
(* enters the callee at its entry block, a retsub resumes at the block     *)
(* after the call site, and a block is not entered twice within one call.  *)
(***************************************************************************)
NoWalk == [state |-> "idle", bb |-> 0, path |-> <<>>, visited |-> {}, stack |-> <<>>]

ExitInstr(b) == instructions[bbs[b].instructions[Len(bbs[b].instructions)]]

\* the block execution resumes at after the call that ends block b (0: none)
ReturnPoint(b) ==
    IF ExitInstr(b).next = <<>> THEN 0 ELSE instructions[ExitInstr(b).next[1]].bb

CalleeEntry(b) ==
    LET k == CHOOSE k \in 1..Len(subroutines) :
                 subroutines[k].name = ExitInstr(b).called_subroutine
    IN  subroutines[k].entry

Enter(w, b) == [w EXCEPT !.bb = b, !.path = Append(@, bbs[b].idx)]

walk_start ==
    /\ caller = "test"
    /\ pc = "done"
    /\ walk.state = "idle"
    /\ walk' = [state |-> "walking", bb |-> teal.entry,
                path |-> <<bbs[teal.entry].idx>>, visited |-> {teal.entry},
                stack |-> <<>>]
    /\ UNCHANGED <<parser_vars, front_vars, int_vars>>

walk_call ==
    /\ walk.state = "walking"
    /\ ExitInstr(walk.bb).kind = "Callsub"
    /\ walk' = IF Len(walk.stack) >= MaxCallDepth
               THEN [walk EXCEPT !.state = "dropped"]
               ELSE [Enter(walk, CalleeEntry(walk.bb)) EXCEPT
                       !.visited = {CalleeEntry(walk.bb)},
                       !.stack = Append(@, [resume |-> ReturnPoint(walk.bb),
                                            visited |-> walk.visited])]
    /\ UNCHANGED <<parser_vars, front_vars, int_vars>>

walk_retsub ==
    /\ walk.state = "walking"
    /\ ExitInstr(walk.bb).kind = "Retsub"
    /\ walk' = IF walk.stack = <<>> \/ walk.stack[Len(walk.stack)].resume = 0
               THEN [walk EXCEPT !.state = "dropped"]
               ELSE LET top == walk.stack[Len(walk.stack)]
                    IN  [Enter(walk, top.resume) EXCEPT
                           !.visited = top.visited \cup {top.resume},
                           !.stack = SubSeq(@, 1, Len(@) - 1)]
    /\ UNCHANGED <<parser_vars, front_vars, int_vars>>

walk_branch ==
    /\ walk.state = "walking"
    /\ ExitInstr(walk.bb).kind \notin {"Callsub", "Retsub"}
    /\ \E nb \in Range(bbs[walk.bb].next) \ walk.visited :
          walk' = [Enter(walk, nb) EXCEPT !.visited = @ \cup {nb}]
    /\ UNCHANGED <<parser_vars, front_vars, int_vars>>

\* the path ends: it is reported unless the contract fails there or the
\* walk is back in a block of the same call
walk_end ==
    /\ walk.state = "walking"
    /\ ExitInstr(walk.bb).kind \notin {"Callsub", "Retsub"}
    /\ Range(bbs[walk.bb].next) \subseteq walk.visited
    /\ walk' = [walk EXCEPT !.state =
                  IF bbs[walk.bb].next = <<>> /\ ExitInstr(walk.bb).kind # "Err"
                  THEN "reported" ELSE "dropped"]
    /\ UNCHANGED <<parser_vars, front_vars, int_vars>>

(***************************************************************************)
(* The front-end: main of tealer/__main__.py.                              *)
(***************************************************************************)
\* what the command line and the installation hold
CommandLines ==
    [detectors_to_run : {"all", "can-update", "no-such-detector"},
     printers_to_run : {"", "human-summary", "no-such-printer"},
     plugin : {"none", "not-a-detector", "not-a-printer"},
     program : {"readable", "missing"},
     json : {"", "-"},
     print_cfg : BOOLEAN]

NoArgs == [detectors_to_run |-> "all", printers_to_run |-> "", plugin |-> "none",
           program |-> "readable", json |-> "", print_cfg |-> FALSE]

\* the files main is given
ProgramFiles ==
    {MULTIPLE_RETURN_POINTS,
     <<>>,
     <<IntLine, MalformedLine>>,
     <<Jump("B", "L1", 2)>>,
     <<Jump("Callsub", "L1", 4)>>,
     <<CommentLine, OtherLine(5, "stateful", 0), OtherLine(1, "stateless", 6)>>}

\* collect_plugins raises TealerException for a plugin whose lists hold
\* something else than detectors and printers
collect_plugins_raises == args.plugin \in {"not-a-detector", "not-a-printer"}

\* choose_detectors raises TealerException for a name that is no detector
choose_detectors_raises == args.detectors_to_run \notin {"all", "can-update"}

\* choose_printers raises TealerException for a name that is no printer
choose_printers_raises == args.printers_to_run \notin {"", "human-summary"}

\* an exception raised at a statement of main outside its try block
Escapes(exception) ==
    /\ uncaught' = exception
    /\ mpc' = "raised"
    /\ UNCHANGED <<caller, args, error, results_detectors, output>>

Goes(to) ==
    /\ mpc' = to
    /\ UNCHANGED <<caller, args, error, uncaught, results_detectors, output>>

\* lines 318-319
main_get_detectors_and_printers ==
    /\ mpc = "get_detectors_and_printers"
    /\ IF collect_plugins_raises THEN Escapes("TealerException")
       ELSE Goes("choose_detectors")
    /\ UNCHANGED <<parser_vars, walk, int_vars>>

\* line 321
main_choose_detectors ==
    /\ mpc = "choose_detectors"
    /\ IF choose_detectors_raises THEN Escapes("TealerException")
       ELSE Goes("choose_printers")
    /\ UNCHANGED <<parser_vars, walk, int_vars>>

\* line 322
main_choose_printers ==
    /\ mpc = "choose_printers"
    /\ IF choose_printers_raises THEN Escapes("TealerException")
       ELSE Goes("open")
    /\ UNCHANGED <<parser_vars, walk, int_vars>>

\* lines 327-330: open raises OSError, which the except clause does not name
main_open ==
    /\ mpc = "open"
    /\ IF args.program = "missing"
       THEN /\ Escapes("OSError")
            /\ UNCHANGED parser_vars
       ELSE /\ Goes("parse_teal")
            /\ \E text \in ProgramFiles : lines' = text
            /\ pc' = "first_pass"
            /\ UNCHANGED <<cursor, idx, prev, instructions, labels,
                           subroutine_callsubs, intcblock_ins, bytecblock_ins,
                           bbs, all_bbs, mode, version, verify_error, stderr,
                           stdout, subroutines, main_program, teal, analyses,
                           caches>>
    /\ UNCHANGED <<walk, int_vars>>

\* parse_teal ends in sys.exit or in an exception: neither is a
\* TealerException
main_parse_teal_raises ==
    /\ mpc = "parse_teal"
    /\ pc \in {"exit", "KeyError", "IndexError", "AssertionError"}
    /\ Escapes(IF pc = "exit" THEN "SystemExit" ELSE pc)
    /\ UNCHANGED <<parser_vars, walk, int_vars>>

\* lines 332-334: parse_teal returned; with --print-cfg main returns here
main_parse_teal_returns ==
    /\ mpc = "parse_teal"
    /\ pc = "done"
    /\ Goes(IF args.print_cfg THEN "returned" ELSE "handle_detectors_and_printers")
    /\ UNCHANGED <<parser_vars, walk, int_vars>>

\* lines 336-341: the detectors and printers are registered and run; a
\* TealerException of theirs is caught and kept in error
main_handle_detectors_and_printers ==
    /\ mpc = "handle_detectors_and_printers"
    /\ \E raised \in BOOLEAN :
          IF raised
          THEN /\ error' = "TealerException"
               /\ UNCHANGED results_detectors
          ELSE /\ results_detectors' = <<args.detectors_to_run>>
               /\ UNCHANGED error
    /\ mpc' = "handle_output"
    /\ UNCHANGED <<caller, args, uncaught, output>>
    /\ UNCHANGED <<parser_vars, walk, int_vars>>

\* line 302
JsonSuccess(err) == err # ""

\* handle_output, lines 290-313
handle_output ==
    /\ mpc = "handle_output"
    /\ IF args.json = ""
       THEN IF error # ""
            THEN /\ output' = [printed |-> "Error", error |-> error]
                 /\ mpc' = "exited"
            ELSE /\ output' = [files |-> results_detectors]
                 /\ mpc' = "returned"
       ELSE /\ output' = [success |-> JsonSuccess(error), error |-> error,
                          result |-> results_detectors]
            /\ mpc' = "returned"
    /\ UNCHANGED <<caller, args, error, uncaught, results_detectors>>
    /\ UNCHANGED <<parser_vars, walk, int_vars>>

FrontStart(who, at, command_line) ==
    /\ caller = who
    /\ mpc = at
    /\ args = command_line
    /\ error = ""
    /\ uncaught = ""
    /\ results_detectors = <<>>
    /\ output = [nothing |-> TRUE]
    /\ walk = NoWalk
    /\ x = <<>>
    /\ result = NotCalled

\* a test calls parse_teal on a source text and runs the detector on the result
InitTest ==
    /\ \E text \in SourceTexts : ParserStart(text)
    /\ pc = "first_pass"
    /\ FrontStart("test", "none", NoArgs)

\* the command line tool is started
InitMain ==
    /\ ParserStart(<<>>)
    /\ pc = "idle"
    /\ \E command_line \in CommandLines :
          FrontStart("main", "get_detectors_and_printers", command_line)

Init == InitTest \/ InitMain

Next ==
    \/ _first_pass
    \/ _first_pass_return
    \/ _second_pass
    \/ create_bb
    \/ _fourth_pass
    \/ _add_basic_blocks_idx
    \/ detect_and_verify
    \/ identify_subroutines
    \/ identify_main
    \/ construct_teal
    \/ _fill_intc_bytec_info
    \/ run_analysis
    \/ cache_clear
    \/ walk_start
    \/ walk_call
    \/ walk_retsub
    \/ walk_branch
    \/ walk_end
    \/ main_get_detectors_and_printers
    \/ main_choose_detectors
    \/ main_choose_printers
    \/ main_open
    \/ main_parse_teal_raises
    \/ main_parse_teal_returns
    \/ main_handle_detectors_and_printers
    \/ handle_output

vars == <<parser_vars, front_vars, walk, int_vars>>

Spec == Init /\ [][Next]_vars

\* _parse_int called on each literal
InitParseInt ==
    /\ ParserStart(<<>>)
    /\ pc = "idle"
    /\ caller = "test"
    /\ mpc = "none"
    /\ args = NoArgs
    /\ error = ""
    /\ uncaught = ""
    /\ results_detectors = <<>>
    /\ output = [nothing |-> TRUE]
    /\ walk = NoWalk
    /\ x \in Literals
    /\ result = NotCalled

NextParseInt == call_parse_int

SpecParseInt == InitParseInt /\ [][NextParseInt]_vars

(***************************************************************************)
(* Properties.                                                             *)
(***************************************************************************)
AfterPass4 ==
    pc \in {"add_basic_blocks_idx", "detect_contract_type", "subroutines",
            "main_program", "teal", "fill_intc_bytec_info", "analysis", "done"}

Blocks == 1..Len(bbs)
Entry(b) == bbs[b].instructions[1]
Exit(b) == bbs[b].instructions[Len(bbs[b].instructions)]
Inside(b) == Range(bbs[b].instructions)
Interior(b) == {bbs[b].instructions[k] : k \in 2..(Len(bbs[b].instructions) - 1)}

InteriorIsStraight(b) ==
    \A i \in Interior(b) :
        /\ Len(instructions[i].prev) = 1
        /\ Len(instructions[i].next) = 1
        /\ instructions[i].prev[1] \in Inside(b)
        /\ instructions[i].next[1] \in Inside(b)

\* C1 as stated: after the four passes, in every block the entry instruction
\* has no predecessor inside the block, the exit instruction has no successor
\* inside the block, and every interior instruction has exactly one
\* predecessor and one successor, both inside the block.
C1_BlockShapeAsStated ==
    AfterPass4 =>
        \A b \in Blocks :
            /\ Range(instructions[Entry(b)].prev) \cap Inside(b) = {}
            /\ Range(instructions[Exit(b)].next) \cap Inside(b) = {}
            /\ InteriorIsStraight(b)

\* C1 amended: after the four passes, in every block the only predecessor of
\* the entry instruction inside the block is the block's exit instruction
\* (a branch back to the block's own label), the only successor of the exit
\* instruction inside the block is the block's entry instruction, and every
\* interior instruction has exactly one predecessor and one successor, both
\* inside the block.
C1_BlockShape ==
    AfterPass4 =>
        \A b \in Blocks :
            /\ Range(instructions[Entry(b)].prev) \cap Inside(b) \subseteq {Exit(b)}
            /\ Range(instructions[Exit(b)].next) \cap Inside(b) \subseteq {Entry(b)}
            /\ Entry(b) \in Range(instructions[Entry(b)].prev) => Entry(b) # Exit(b)
            /\ InteriorIsStraight(b)

\* a block of three instructions whose exit branches to its own entry label
C1_Witness ==
    /\ AfterPass4
    /\ \E b \in Blocks :
        /\ Interior(b) # {}
        /\ Entry(b) \in Range(instructions[Exit(b)].next)
        /\ Exit(b) \in Range(instructions[Entry(b)].prev)

\* the blocks the exit instruction of block a leads to at instruction level
ExitTargets(a) == {instructions[s].bb : s \in Range(instructions[Exit(a)].next)}

\* C2: after pass 4, block b is in the successor list of block a, and a in
\* the predecessor list of b, exactly when the exit instruction of a has an
\* instruction-level successor whose block is b.
C2_EdgesCorrespond ==
    AfterPass4 =>
        \A a \in Blocks : \A b \in Blocks :
            /\ b \in Range(bbs[a].next) <=> b \in ExitTargets(a)
            /\ a \in Range(bbs[b].prev) <=> b \in ExitTargets(a)

\* a block with a default and a jump successor, one of them before it
C2_Witness ==
    /\ AfterPass4
    /\ \E a \in Blocks : \E b \in Blocks : \E c \in Blocks :
        /\ b < a /\ a < c
        /\ {b, c} \subseteq Range(bbs[a].next)
        /\ {b, c} \subseteq ExitTargets(a)

\* the Switch instructions with three distinct labels
Switch3 ==
    {i \in 1..Len(instructions) :
        /\ instructions[i].kind = "Switch"
        /\ Len(instructions[i].labels) = 3
        /\ Cardinality(Range(instructions[i].labels)) = 3}

LabelBlocks(i) == {instructions[labels[l]].bb : l \in Range(instructions[i].labels)}

\* the block of the instruction that follows instruction i, if there is one
FallThroughBlock(i) ==
    IF i < Len(instructions) THEN {instructions[i + 1].bb} ELSE {}

\* C3 as stated: a Switch with three distinct labels is the exit of its
\* block, and the successor list of that block is exactly the three blocks
\* that begin at the labels.
C3_SwitchSuccessorsAsStated ==
    AfterPass4 =>
        \A i \in Switch3 :
            LET b == instructions[i].bb
            IN  /\ Exit(b) = i
                /\ \A l \in Range(instructions[i].labels) :
                      Entry(instructions[labels[l]].bb) = labels[l]
                /\ Len(bbs[b].next) = 3
                /\ Range(bbs[b].next) = LabelBlocks(i)

\* C3 amended: a Switch with three distinct labels is the exit of its block,
\* and the successor list of that block holds, each once, the three blocks
\* that begin at the labels and the block of the instruction that follows
\* the Switch, if there is one (the default edge): three blocks when the
\* Switch is the last instruction or is followed by one of its labels, four
\* otherwise.
C3_SwitchSuccessors ==
    AfterPass4 =>
        \A i \in Switch3 :
            LET b == instructions[i].bb
            IN  /\ Exit(b) = i
                /\ \A l \in Range(instructions[i].labels) :
                      Entry(instructions[labels[l]].bb) = labels[l]
                /\ Cardinality(LabelBlocks(i)) = 3
                /\ Range(bbs[b].next) = LabelBlocks(i) \cup FallThroughBlock(i)
                /\ Len(bbs[b].next) = Cardinality(Range(bbs[b].next))

\* a Switch followed by an instruction that is none of its labels
C3_Witness ==
    /\ AfterPass4
    /\ \E i \in Switch3 :
        /\ i < Len(instructions)
        /\ instructions[i + 1].kind # "Label"
        /\ Len(bbs[instructions[i].bb].next) = 4

AllSubroutines == Append(subroutines, main_program)

\* C4: after parse_teal, every block has one subroutine as its back-reference,
\* is in the block set of that subroutine and in the block set of no other.
C4_OneSubroutinePerBlock ==
    pc = "done" =>
        \A b \in Blocks :
            /\ \E k \in 1..Len(AllSubroutines) :
                  AllSubroutines[k].name = bbs[b].subroutine
            /\ \A k \in 1..Len(AllSubroutines) :
                  b \in Range(AllSubroutines[k].blocks)
                      <=> AllSubroutines[k].name = bbs[b].subroutine

\* the Callsub instructions that target label l, in source order
RECURSIVE CallsubsOf(_, _)
CallsubsOf(l, i) ==
    IF i > Len(instructions) THEN <<>>
    ELSE (IF instructions[i].kind = "Callsub" /\ instructions[i].label = l
          THEN <<i>> ELSE <<>>) \o CallsubsOf(l, i + 1)

\* C5: after parse_teal, every Callsub has a callee, the subroutine named by
\* its label; the call-site blocks of a subroutine are the blocks of the
\* Callsubs that target it, one per Callsub, in source order and without
\* duplicates; and the subroutine map has an entry for a label exactly when
\* a Callsub targets it.
C5_CallSites ==
    pc = "done" =>
        /\ \A i \in 1..Len(instructions) :
              instructions[i].kind = "Callsub" =>
                  /\ instructions[i].called_subroutine = instructions[i].label
                  /\ \E k \in 1..Len(subroutines) :
                        subroutines[k].name = instructions[i].label
        /\ \A k \in 1..Len(subroutines) :
              LET sites == CallsubsOf(subroutines[k].name, 1)
                  called == subroutines[k].caller_blocks
              IN  /\ sites # <<>>
                  /\ called = [n \in 1..Len(sites) |-> instructions[sites[n]].bb]
                  /\ Cardinality(Range(called)) = Len(called)
                  /\ \A j \in 1..Len(subroutines) :
                        subroutines[j].name = subroutines[k].name => j = k
        /\ lines = MULTIPLE_RETURN_POINTS =>
              /\ Len(subroutines) = 1
              /\ [n \in 1..2 |-> bbs[subroutines[1].caller_blocks[n]].idx] = <<0, 1>>

\* the test contract is parsed: subroutine_0 is called from B0 and B1
C5_Witness ==
    /\ pc = "done"
    /\ lines = MULTIPLE_RETURN_POINTS
    /\ Len(subroutines[1].caller_blocks) = 2
    /\ instructions[2].called_subroutine = "subroutine_0"

\* the 0-based indices of the malformed lines
MalformedAt == {k \in 0..(Len(lines) - 1) : lines[k + 1].kind = "Malformed"}

\* C8: a parse error ends the process at the first malformed line: the line
\* number printed is the 0-based index of that line, no later line is read,
\* no block and no Teal object is made; and every instruction has the 1-based
\* number of its line, so the numbers are at least 1 and differ.
C8_ParseErrorIsFatal ==
    /\ pc = "exit" =>
          /\ cursor - 1 \in MalformedAt
          /\ \A k \in MalformedAt : k >= cursor - 1
          /\ stdout = <<[text |-> "Parse error at line", line |-> cursor - 1]>>
          /\ \A i \in 1..Len(instructions) :
                instructions[i].line < cursor /\ instructions[i].bb = 0
          /\ bbs = <<>> /\ all_bbs = <<>> /\ ~teal.made /\ analyses = <<>>
    /\ pc # "exit" => stdout = <<>>
    /\ (pc \notin {"first_pass", "exit"}) => MalformedAt = {}
    /\ \A i \in 1..Len(instructions) :
          /\ instructions[i].line \in 1..cursor
          /\ lines[instructions[i].line].kind = instructions[i].kind
          /\ \A j \in 1..Len(instructions) :
                i < j => instructions[i].line < instructions[j].line

\* the parse error is on the third line, after an instruction and a line
\* without one
C8_Witness ==
    /\ pc = "exit"
    /\ cursor = 3
    /\ Len(instructions) = 1
    /\ instructions[1].line = 1

\* the version of the program: that of the Pragma when the first instruction
\* is one, else 1
DeclaredVersion ==
    IF instructions[1].kind = "Pragma" THEN instructions[1].program_version ELSE 1

TooNew == \E i \in 1..Len(instructions) : instructions[i].version > DeclaredVersion

BothModes ==
    {"stateful", "stateless"} \subseteq {instructions[i].mode : i \in 1..Len(instructions)}

\* C9: when an instruction needs a later version than the program's, or the
\* program holds a stateful-only and a stateless-only instruction,
\* _verify_version prints a diagnostic and returns true, and parse_teal goes
\* on: it stops only for an undefined label, and it returns a Teal object,
\* with the subroutines found, the pools looked at and the analyses run,
\* whose version is that of the Pragma when the first instruction is a
\* Pragma and 1 otherwise.
C9_ValidationIsNotFatal ==
    /\ (pc \in {"subroutines", "main_program", "teal", "fill_intc_bytec_info",
                "analysis", "done"} /\ (TooNew \/ BothModes)) =>
          /\ verify_error
          /\ stderr # <<>>
          /\ TooNew => \E k \in 1..Len(stderr) : stderr[k].kind = "instruction"
          /\ BothModes => stderr[Len(stderr)].kind = "mode"
          /\ stdout = <<>>
    /\ (pc \in {"KeyError", "IndexError", "AssertionError"} /\ version # 0) =>
          UndefinedSubroutine
    /\ pc = "done" =>
          /\ teal.made
          /\ teal.version = DeclaredVersion
          /\ main_program.name = "__main__"
          /\ Len(subroutines) = Len(subroutine_callsubs)
          /\ analyses = <<"GroupIndices">> \o OtherAnalyses

\* a program with a Pragma, an instruction too new for it and both modes is
\* parsed to the end
C9_Witness ==
    /\ pc = "done"
    /\ instructions[1].kind = "Pragma"
    /\ TooNew
    /\ verify_error
    /\ teal.version = 3

\* the instructions whose mode is not `any`
Moded == {i \in 1..Len(instructions) : instructions[i].mode # "any"}

\* C10: the mode of the program is the mode of the first instruction whose
\* mode is not `any`, and `any` when there is none.
C10_FirstModeWins ==
    pc = "done" =>
        /\ Moded = {} => teal.mode = "any"
        /\ \A i \in Moded :
              (\A j \in Moded : i <= j) => teal.mode = instructions[i].mode

\* a stateless-only instruction before a stateful-only one
C10_Witness ==
    /\ pc = "done"
    /\ \E i \in Moded : \E j \in Moded :
        /\ i < j
        /\ \A k \in Moded : i <= k
        /\ instructions[i].mode = "stateless"
        /\ instructions[j].mode = "stateful"
        /\ teal.mode = "stateless"

\* the block with the given index
BlockAt(n) == all_bbs[n + 1]

\* a step of a path: along an edge of the CFG, into the entry block of the
\* subroutine a call names, or from a retsub to the block after a call site
\* that is earlier on the path
PathStep(path, k) ==
    LET from == BlockAt(path[k - 1])
        to == BlockAt(path[k])
    IN  CASE ExitInstr(from).kind = "Callsub" -> to = CalleeEntry(from)
          [] ExitInstr(from).kind = "Retsub" ->
                \E j \in 1..(k - 2) :
                    /\ ExitInstr(BlockAt(path[j])).kind = "Callsub"
                    /\ to = ReturnPoint(BlockAt(path[j]))
          [] OTHER -> to \in Range(bbs[from].next)

C7_TealerExceptionIsSurfaced ==
    /\ uncaught # "TealerException"
    /\ (mpc \in {"returned", "exited"} /\ error # "") =>
          /\ output.error = error
          /\ args.json = "" => mpc = "exited"

(***************************************************************************)
(* The constant pools.                                                     *)
(***************************************************************************)
Returned == pc \in {"analysis", "done"}
InstructionsOfKind(k) == {i \in 1..Len(instructions) : instructions[i].kind = k}

\* the pool holds the constants of the program's only instruction of the
\* kind, which is in the block of the first instruction, or nothing
PoolIsOf(pool, k) ==
    LET only == {i \in InstructionsOfKind(k) :
                    /\ InstructionsOfKind(k) = {i}
                    /\ instructions[i].bb = instructions[1].bb}
    IN  IF only = {} THEN pool = 0 ELSE pool \in only

\* C11: the integer pool is published if and only if the program has exactly
\* one intcblock and that instruction is in the main entry block, and it is
\* then the pool of that instruction; with no intcblock, with two or more,
\* or with one outside the entry block the pool stays unresolved.  The same
\* holds of bytecblock and the byte pool, each pool depending on the
\* instructions of its own kind only.
C11_ConstantPools ==
    Returned =>
        /\ PoolIsOf(teal.int_constants, "Intcblock")
        /\ PoolIsOf(teal.byte_constants, "Bytecblock")

\* one pool published while the other program's only block instruction is
\* outside the entry block
C11_Witness ==
    /\ pc = "done"
    /\ teal.int_constants # 0
    /\ teal.byte_constants = 0
    /\ \E i \in 1..Len(instructions) :
          /\ InstructionsOfKind("Bytecblock") = {i}
          /\ instructions[i].bb # instructions[1].bb

(***************************************************************************)
(* The order and the indices of the blocks.                                *)
(***************************************************************************)
\* C12: after parse_teal the block list is in strictly increasing order of
\* the line of each block's entry instruction, the block at position i of
\* the list (counted from 0) has idx i, so the indices are 0..n-1, and block
\* 0 holds the first instruction.
C12_BlockOrder ==
    pc = "done" =>
        /\ \A i, j \in 1..Len(all_bbs) :
              i < j => EntryLine(all_bbs[i]) < EntryLine(all_bbs[j])
        /\ \A i \in 1..Len(all_bbs) : bbs[all_bbs[i]].idx = i - 1
        /\ Range(all_bbs) = Blocks
        /\ Len(all_bbs) = Len(bbs)
        /\ 1 \in Inside(all_bbs[1])

\* three blocks or more
C12_Witness ==
    /\ pc = "done"
    /\ Len(all_bbs) >= 3
    /\ bbs[all_bbs[3]].idx = 2

(***************************************************************************)
(* The instruction edges of pass 1 and pass 2.                             *)
(***************************************************************************)
Falls(p) == instructions[p].kind \notin {"B", "Err", "Return", "Retsub"}

\* C14: while and after pass 1 links the instructions, every two consecutive
\* instructions p, q of the list have the default edge in both directions (q
\* the only successor of p, p the only predecessor of q) if and only if p is
\* not a b, err, return or retsub, and have no edge otherwise; a callsub has
\* the edge, and the lines without an instruction between p and q do not
\* matter.
C14_DefaultEdges ==
    pc \in {"first_pass", "second_pass"} =>
        /\ \A p \in 1..(Len(instructions) - 1) :
              IF Falls(p)
              THEN /\ instructions[p].next = <<p + 1>>
                   /\ instructions[p + 1].prev = <<p>>
              ELSE /\ instructions[p].next = <<>>
                   /\ instructions[p + 1].prev = <<>>
        /\ Len(instructions) > 0 =>
              /\ instructions[1].prev = <<>>
              /\ instructions[Len(instructions)].next = <<>>

\* a callsub linked to the instruction after it, with a line that holds no
\* instruction between the two
C14_Witness ==
    /\ pc = "second_pass"
    /\ \E p \in 1..(Len(instructions) - 1) :
          /\ instructions[p].kind = "Callsub"
          /\ instructions[p + 1].line > instructions[p].line + 1
          /\ instructions[p].next = <<p + 1>>

\* the instructions the claim gives a jump edge, and the labels they name
BranchTargets(ins) ==
    CASE ins.kind \in {"B", "BZ", "BNZ"} -> <<labels[ins.label]>>
      [] ins.kind \in {"Switch", "Match"} ->
             [k \in 1..Len(ins.labels) |-> labels[ins.labels[k]]]
      [] OTHER -> <<>>

Count(s, e) == Cardinality({k \in 1..Len(s) : s[k] = e})

\* C15: the step of pass 2 appends to the successors of every b, bz and bnz
\* the label instruction its target names, to the successors of every switch
\* and match one label instruction for each label it holds, and to the
\* predecessors of each label instruction the instructions that jump to it,
\* once for each jump; no other instruction gets an edge and the edges pass
\* 1 made stay where they were.
C15_JumpEdges ==
    [][(pc = "second_pass" /\ pc' = "create_bb") =>
          /\ Len(instructions') = Len(instructions)
          /\ \A i \in 1..Len(instructions) :
                /\ instructions'[i].next =
                       instructions[i].next \o BranchTargets(instructions[i])
                /\ SubSeq(instructions'[i].prev, 1, Len(instructions[i].prev)) =
                       instructions[i].prev
                /\ \A j \in 1..Len(instructions) :
                      Count(instructions'[i].prev, j) =
                         Count(instructions[i].prev, j)
                         + Count(BranchTargets(instructions[j]), i)]_vars

\* a match that names one label twice and a callsub, after pass 2
C15_Witness ==
    /\ pc = "create_bb"
    /\ \E i, j, l \in 1..Len(instructions) :
          /\ instructions[i].kind = "Match"
          /\ Count(instructions[i].next, l) >= 2
          /\ Count(instructions[l].prev, i) >= 2
          /\ instructions[j].kind = "Callsub"
          /\ instructions[j].label = instructions[l].label
          /\ Count(instructions[j].next, l) = 0

(***************************************************************************)
(* The partition pass 3 makes.                                             *)
(***************************************************************************)
AfterPass3 == pc = "fourth_pass" \/ AfterPass4

\* the instructions after which the claim has a block end
EndsBlock(i) ==
    \/ instructions[i].kind \in {"Callsub", "B"}
    \/ Len(instructions[i].next) > 1
    \/ Len(instructions[i].next) = 0

BlockStarts ==
    {1} \cup {i \in 1..Len(instructions) : instructions[i].kind = "Label"}
        \cup {i + 1 : i \in {j \in 1..(Len(instructions) - 1) : EndsBlock(j)}}

\* C16: once pass 3 has run on a list of one instruction or more, no block
\* is empty, each block holds consecutive instructions in source order,
\* every instruction is in exactly one block (the one it refers to), and the
\* entry instructions of the blocks are exactly the first instruction, the
\* labels, and the instructions that follow a callsub, a b, an instruction
\* with more than one successor or an instruction without successor.  The
\* contract of the test is cut into B0..B3 as its comments say.
C16_Partition ==
    (AfterPass3 /\ Len(instructions) > 0) =>
        /\ \A b \in Blocks :
              /\ Len(bbs[b].instructions) > 0
              /\ \A k \in 1..(Len(bbs[b].instructions) - 1) :
                    bbs[b].instructions[k + 1] = bbs[b].instructions[k] + 1
        /\ \A i \in 1..Len(instructions) :
              /\ {b \in Blocks : i \in Inside(b)} = {instructions[i].bb}
              /\ Count(bbs[instructions[i].bb].instructions, i) = 1
        /\ {Entry(b) : b \in Blocks} = BlockStarts
        /\ \A a, b \in Blocks : a < b => Entry(a) < Entry(b)
        /\ lines = MULTIPLE_RETURN_POINTS =>
              [b \in Blocks |-> bbs[b].instructions]
                 = <<(<<1, 2>>), (<<3>>), (<<4, 5>>), (<<6, 7>>)>>

\* a program that ends with a block-closing instruction, with a block
\* opened after a b that no label follows
C16_Witness ==
    /\ AfterPass3
    /\ Len(bbs) >= 2
    /\ EndsBlock(Len(instructions))
    /\ instructions[Len(instructions)].kind \in {"Callsub", "BZ", "Retsub"}
    /\ \E i \in 1..(Len(instructions) - 1) :
          /\ instructions[i].kind = "B"
          /\ instructions[i + 1].kind # "Label"

(***************************************************************************)
(* The blocks of a subroutine.                                             *)
(***************************************************************************)
AfterSubroutines == pc \in {"teal", "fill_intc_bytec_info", "analysis", "done"}

\* the blocks that successor edges lead to from the blocks of `seen`
RECURSIVE Reachable(_)
Reachable(seen) ==
    LET more == seen \cup UNION {Range(bbs[b].next) : b \in seen}
    IN  IF more = seen THEN seen ELSE Reachable(more)

\* `blocks` lists the blocks reachable from `entry`, each once, entry first
ListsReachable(blocks, entry) ==
    /\ Range(blocks) = Reachable({entry})
    /\ Len(blocks) = Cardinality(Range(blocks))
    /\ blocks[1] = entry

Claimed == UNION {Range(AllSubroutines[k].blocks) : k \in 1..Len(AllSubroutines)}

\* C17: the walk ends on every control-flow graph, cyclic ones included, with
\* a list of no more entries than there are blocks: the blocks reachable from
\* the entry along successor edges, each once, the entry first.  The block
\* list of each named subroutine is the walk from the block of its label,
\* that of __main__ the walk from block 0, and a block that no walk has
\* reached refers to __main__.
C17_SubroutineBlocks ==
    AfterSubroutines =>
        /\ \A k \in 1..Len(subroutines) :
              /\ subroutines[k].entry = instructions[labels[subroutines[k].name]].bb
              /\ ListsReachable(subroutines[k].blocks, subroutines[k].entry)
        /\ bbs[main_program.entry].idx = 0
        /\ ListsReachable(main_program.blocks, main_program.entry)
        /\ \A b \in Blocks \ Claimed : bbs[b].subroutine = "__main__"

\* a subroutine of two blocks that lie on a cycle
C17_Witness ==
    /\ pc = "done"
    /\ \E k \in 1..Len(subroutines) :
          /\ Len(subroutines[k].blocks) >= 2
          /\ \E b \in Range(subroutines[k].blocks) :
                b \in Reachable(Range(bbs[b].next))

(***************************************************************************)
(* The diagnostics for fields.                                             *)
(***************************************************************************)
Verified ==
    pc \in {"subroutines", "main_program", "teal", "fill_intc_bytec_info",
            "analysis", "done"}

\* the instructions with a field that needs a later version than the program's
FieldTooNew ==
    {i \in 1..Len(instructions) :
        /\ instructions[i].field_version # 0
        /\ instructions[i].field_version > DeclaredVersion}

Diagnosed(k, i) ==
    \E n \in 1..Len(stderr) : stderr[n] = [kind |-> k, line |-> instructions[i].line]

\* C18 as stated: every instruction with a field that is too new for the
\* program gets a field diagnostic, whether or not the instruction itself is
\* too new for the program as well.
C18_FieldDiagnosticAsStated ==
    Verified => \A i \in FieldTooNew : Diagnosed("field", i)

\* C18: an instruction with a field that is too new for the program gets a
\* field diagnostic if and only if the instruction itself is supported in
\* the program's version; when the instruction is too new as well it gets
\* the instruction diagnostic and no field diagnostic.
C18_FieldDiagnostic ==
    Verified =>
        \A i \in FieldTooNew :
            IF instructions[i].version > DeclaredVersion
            THEN Diagnosed("instruction", i) /\ ~Diagnosed("field", i)
            ELSE Diagnosed("field", i) /\ ~Diagnosed("instruction", i)

\* one program with both cases
C18_Witness ==
    /\ pc = "done"
    /\ \E i, j \in FieldTooNew :
          /\ instructions[i].version > DeclaredVersion
          /\ instructions[j].version <= DeclaredVersion
          /\ Diagnosed("field", j)
          /\ ~Diagnosed("field", i)

(***************************************************************************)
(* The order of the analyses.                                              *)
(***************************************************************************)
AnalysisClasses == {"GroupIndices"} \cup Range(OtherAnalyses)

\* what holds of the analyses run so far
AnalysesInOrder ==
    /\ analyses # <<>> =>
          /\ analyses[1] = "GroupIndices"
          /\ Returned
          /\ teal.made
          /\ PoolIsOf(teal.int_constants, "Intcblock")
          /\ PoolIsOf(teal.byte_constants, "Bytecblock")
    /\ (\A c \in AnalysisClasses : Count(analyses, c) <= 1)
    /\ Range(analyses) \subseteq AnalysisClasses
    /\ (caches = "cleared") <=> (pc = "done")
    /\ (pc = "done") => (\A c \in AnalysisClasses : Count(analyses, c) = 1)
    /\ (pc = "fill_intc_bytec_info") => (analyses = <<>> /\ caches = "empty")

\* a step that runs an analysis
AnalysisRuns ==
    (analyses' # analyses) =>
        /\ pc = "analysis" /\ pc' = "analysis"
        /\ \E c \in AnalysisClasses : analyses' = Append(analyses, c)
        /\ caches' = "filled"
        /\ teal' = teal

\* a step that changes the caches and runs no analysis
CachesCleared ==
    (caches' # caches /\ analyses' = analyses) =>
        /\ caches' = "cleared"
        /\ Len(analyses) = Cardinality(AnalysisClasses)
        /\ pc = "analysis" /\ pc' = "done"

\* C19: GroupIndices is the first analysis to run and runs once; each other
\* class runs once, after it; each run is a step taken between the
\* resolution of the constant pools and the clearing of the caches, so the
\* pools are as resolved when the first analysis starts and are not touched
\* later; the caches are cleared in the step in which parse_teal returns,
\* when every class has run, and no analysis runs after that.
C19_AnalysisOrder ==
    []AnalysesInOrder /\ [][AnalysisRuns]_vars /\ [][CachesCleared]_vars

\* parse_teal has returned: a pool resolved, three analyses run in order,
\* the caches cleared
C19_Witness ==
    /\ pc = "done"
    /\ teal.int_constants # 0
    /\ Len(analyses) = 3
    /\ analyses[1] = "GroupIndices"
    /\ caches = "cleared"

(***************************************************************************)
(* The assertion of pass 4.                                                *)
(***************************************************************************)
\* C20: the assertion of _fourth_pass never fails, and after pass 3 and
\* after pass 4 the block edges are symmetric (b is a successor of a if and
\* only if a is a predecessor of b) and no block is twice in a list of
\* successors or predecessors, whatever parallel edges the instructions have.
C20_AssertionHolds ==
    /\ pc # "AssertionError"
    /\ AfterPass3 =>
          \A a, b \in Blocks :
              /\ (b \in Range(bbs[a].next)) <=> (a \in Range(bbs[b].prev))
              /\ Count(bbs[a].next, b) <= 1
              /\ Count(bbs[a].prev, b) <= 1

\* pass 4 is over for a block whose exit instruction has two edges to one
\* instruction: the block of that instruction is its successor once
C20_Witness ==
    /\ AfterPass4
    /\ \E a \in Blocks : \E l \in 1..Len(instructions) :
          /\ Count(instructions[Exit(a)].next, l) >= 2
          /\ Count(bbs[a].next, instructions[l].bb) = 1
          /\ Count(bbs[instructions[l].bb].prev, a) = 1

(***************************************************************************)
(* The value of an integer literal.                                        *)
(***************************************************************************)
\* the base the prefix of a literal stands for, and the digits of the literal
LiteralBase(s) ==
    IF startswith(s, <<"0", "x">>) THEN 16
    ELSE IF startswith(s, <<"0">>) THEN 8
    ELSE 10

LiteralDigits(s) ==
    IF startswith(s, <<"0", "x">>) THEN SubSeq(s, 3, Len(s)) ELSE s

WellFormed(s) ==
    /\ LiteralDigits(s) # <<>>
    /\ \A k \in 1..Len(LiteralDigits(s)) :
          DigitValue(LiteralDigits(s)[k]) < LiteralBase(s)

RECURSIVE Power(_, _)
Power(b, n) == IF n = 0 THEN 1 ELSE b * Power(b, n - 1)

\* the sum of digit * base^position over the first k digits
RECURSIVE PositionalSum(_, _, _)
PositionalSum(ds, base, k) ==
    IF k = 0 THEN 0
    ELSE DigitValue(ds[k]) * Power(base, Len(ds) - k) + PositionalSum(ds, base, k - 1)

\* C13: _parse_int reads a literal with the prefix 0x in base 16, another
\* literal with the prefix 0 in base 8, and every other literal in base 10:
\* when the digits of the literal are digits of its base, it returns their
\* positional value in that base.  0x1A gives 26, 017 gives 15, 0 gives 0
\* and 42 gives 42.
C13_ParseInt ==
    result # NotCalled =>
        /\ WellFormed(x) =>
              result = Value(PositionalSum(LiteralDigits(x), LiteralBase(x),
                                           Len(LiteralDigits(x))))
        /\ x = <<"0", "x", "1", "A">> => result = Value(26)
        /\ x = <<"0", "1", "7">> => result = Value(15)
        /\ x = <<"0">> => result = Value(0)
        /\ x = <<"4", "2">> => result = Value(42)

\* an octal literal of three digits has been read
C13_Witness ==
    /\ x = <<"0", "1", "7">>
    /\ WellFormed(x)
    /\ result = Value(15)

(***************************************************************************)
(* The JSON output.                                                        *)
(***************************************************************************)
\* handle_output has taken the JSON branch
JsonWritten == "success" \in DOMAIN output

\* C21: in the JSON output handle_output writes, `success` is true if and
\* only if `error` is null (no error occurred), `error` is main's error, and
\* `result` holds the findings of every detector that ran.
C21_SuccessIffNoError ==
    JsonWritten =>
        /\ output.success <=> (output.error = "")
        /\ output.error = error
        /\ output.result = results_detectors
====
